---- MODULE Spec2Model ----
(***************************************************************************)
(* Tenant configuration overlay of src/main_prod.py: the per-team config   *)
(* blob in the object store, the enrichment middleware that loads it into  *)
(* the request context, the two-phase configure submission (ack function   *)
(* and lazy save), and the revocation handlers.                            *)
(*                                                                         *)
(* A text (a Python str, a blob payload) is a sequence of chunks; the      *)
(* chunks "{", "}", the quote, the backslash, ":" and "," are the          *)
(* characters JSON gives a meaning to, every other chunk is a run of       *)
(* ordinary characters.  A Python value is a record [ty, v].               *)
(***************************************************************************)
EXTENDS Naturals, Sequences, FiniteSets, TLC

\* ------------------------------------------------------------------------
\* Inputs of the model
\* ------------------------------------------------------------------------
Teams == {"T1"}
Users == {"U1", "U2"}

QT == "\""
BS == "\\"

\* what a configure form can carry: an api key (the second one holds a
\* quote) and the model selected with it
Forms == {[api_key |-> <<"sk-a">>, model |-> <<"gpt-4">>],
          [api_key |-> <<"sk", QT, "b">>, model |-> <<"gpt-4o">>]}

\* longest oauth list of a tokens_revoked event
MaxUserIds == 2

\* oauth lists of a tokens_revoked event: the first n ids of a delivery
\* that names both users and then names them again
RevokedUserIds == <<"U1", "U2", "U1", "U2">>
UserIdLists ==
    {SubSeq(RevokedUserIds, 1, n) : n \in 0..MaxUserIds}

\* ------------------------------------------------------------------------
\* Python values
\* ------------------------------------------------------------------------
None == [ty |-> "none", v |-> <<>>]
PyStr(s) == [ty |-> "str", v |-> s]
PyNum(s) == [ty |-> "num", v |-> s]

\* process-wide defaults imported from app.env
OPENAI_MODEL == PyStr(<<"gpt-3.5-turbo">>)
OPENAI_IMAGE_GENERATION_MODEL == PyStr(<<"dall-e-3">>)
OPENAI_TEMPERATURE == PyNum(<<"1">>)

\* ------------------------------------------------------------------------
\* json.dumps / json.loads on the payloads the program handles
\* ------------------------------------------------------------------------
NumberChunks == {"0.2", "1"}

RECURSIVE json_escape(_)
json_escape(s) ==
    IF s = <<>> THEN <<>>
    ELSE IF Head(s) \in {QT, BS} THEN <<BS, Head(s)>> \o json_escape(Tail(s))
    ELSE <<Head(s)>> \o json_escape(Tail(s))

\* json_string with the escaping left out
json_string_unescaped(s) == <<QT>> \o s \o <<QT>>

json_string(s) == <<QT>> \o json_escape(s) \o <<QT>>

\* json_dumps writing the bare key, the legacy encoding
json_dumps_legacy(api_key, model) == api_key

\* json.dumps({"api_key": api_key, "model": model})
json_dumps(api_key, model) ==
    <<"{">> \o json_string(<<"api_key">>) \o <<":">> \o json_string(api_key)
    \o <<",">> \o json_string(<<"model">>) \o <<":">> \o json_string(model)
    \o <<"}">>

JsonError == [ok |-> FALSE, val |-> None, next |-> 0]

\* scan a string body from position i (just after the opening quote)
RECURSIVE scan_string(_, _, _)
scan_string(s, i, acc) ==
    IF i > Len(s) THEN JsonError
    ELSE IF s[i] = QT THEN [ok |-> TRUE, val |-> PyStr(acc), next |-> i + 1]
    ELSE IF s[i] = BS THEN
        IF i + 1 <= Len(s) /\ s[i + 1] \in {QT, BS}
        THEN scan_string(s, i + 2, Append(acc, s[i + 1]))
        ELSE JsonError
    ELSE scan_string(s, i + 1, Append(acc, s[i]))

\* a JSON value at position i: a string, a number or null
scan_value(s, i) ==
    IF i > Len(s) THEN JsonError
    ELSE IF s[i] = QT THEN scan_string(s, i + 1, <<>>)
    ELSE IF s[i] = "null" THEN [ok |-> TRUE, val |-> None, next |-> i + 1]
    ELSE IF s[i] \in NumberChunks
         THEN [ok |-> TRUE, val |-> PyNum(<<s[i]>>), next |-> i + 1]
    ELSE JsonError

\* the members of an object from position i; a later duplicate key wins
RECURSIVE scan_members(_, _, _)
scan_members(s, i, dict) ==
    IF i > Len(s) \/ s[i] # QT THEN [ok |-> FALSE, dict |-> dict]
    ELSE LET k == scan_string(s, i + 1, <<>>) IN
         IF ~k.ok \/ k.next > Len(s) \/ s[k.next] # ":"
         THEN [ok |-> FALSE, dict |-> dict]
         ELSE LET val == scan_value(s, k.next + 1) IN
              IF ~val.ok \/ val.next > Len(s)
              THEN [ok |-> FALSE, dict |-> dict]
              ELSE LET d == [x \in DOMAIN dict \cup {k.val.v} |->
                                IF x = k.val.v THEN val.val ELSE dict[x]] IN
                   IF s[val.next] = "}"
                   THEN [ok |-> val.next = Len(s), dict |-> d]
                   ELSE IF s[val.next] = ","
                        THEN scan_members(s, val.next + 1, d)
                        ELSE [ok |-> FALSE, dict |-> d]

EmptyDict == [x \in {} |-> None]

\* json.loads(config_str) for a text that starts with "{"
json_loads(s) ==
    IF Len(s) >= 2 /\ s[1] = "{" /\ s[2] = "}"
    THEN [ok |-> Len(s) = 2, dict |-> EmptyDict]
    ELSE scan_members(s, 2, EmptyDict)

\* config.get(key, default)
dict_get(dict, key, default) ==
    IF key \in DOMAIN dict THEN dict[key] ELSE default

\* config_str.startswith("{")
startswith_brace(s) == Len(s) > 0 /\ s[1] = "{"

\* ------------------------------------------------------------------------
\* The enrichment middleware's credential fields
\* ------------------------------------------------------------------------
CredentialsNone ==
    [OPENAI_API_KEY |-> None, OPENAI_MODEL |-> None,
     OPENAI_IMAGE_GENERATION_MODEL |-> None, OPENAI_TEMPERATURE |-> None]

\* credentials_of with the legacy branch leaving the model unset
credentials_of_legacy_model_unset(config_str) ==
    IF startswith_brace(config_str)
    THEN LET config == json_loads(config_str) IN
         IF ~config.ok THEN CredentialsNone
         ELSE [OPENAI_API_KEY |-> dict_get(config.dict, <<"api_key">>, None),
               OPENAI_MODEL |-> dict_get(config.dict, <<"model">>, None),
               OPENAI_IMAGE_GENERATION_MODEL |->
                   dict_get(config.dict, <<"image_generation_model">>,
                            OPENAI_IMAGE_GENERATION_MODEL),
               OPENAI_TEMPERATURE |->
                   dict_get(config.dict, <<"temperature">>, OPENAI_TEMPERATURE)]
    ELSE [OPENAI_API_KEY |-> PyStr(config_str),
          OPENAI_MODEL |-> None,
          OPENAI_IMAGE_GENERATION_MODEL |-> OPENAI_IMAGE_GENERATION_MODEL,
          OPENAI_TEMPERATURE |-> OPENAI_TEMPERATURE]

\* the try block of set_gcs_openai_api_key, given the downloaded text
credentials_of(config_str) ==
    IF startswith_brace(config_str)
    THEN LET config == json_loads(config_str) IN
         IF ~config.ok THEN CredentialsNone
         ELSE [OPENAI_API_KEY |-> dict_get(config.dict, <<"api_key">>, None),
               OPENAI_MODEL |-> dict_get(config.dict, <<"model">>, None),
               OPENAI_IMAGE_GENERATION_MODEL |->
                   dict_get(config.dict, <<"image_generation_model">>,
                            OPENAI_IMAGE_GENERATION_MODEL),
               OPENAI_TEMPERATURE |->
                   dict_get(config.dict, <<"temperature">>, OPENAI_TEMPERATURE)]
    ELSE [OPENAI_API_KEY |-> PyStr(config_str),
          OPENAI_MODEL |-> OPENAI_MODEL,
          OPENAI_IMAGE_GENERATION_MODEL |-> OPENAI_IMAGE_GENERATION_MODEL,
          OPENAI_TEMPERATURE |-> OPENAI_TEMPERATURE]

\* the six static connection settings written after the try block
StaticSettings ==
    {"OPENAI_API_TYPE", "OPENAI_API_BASE", "OPENAI_API_VERSION",
     "OPENAI_DEPLOYMENT_ID", "OPENAI_ORG_ID", "OPENAI_FUNCTION_CALL_MODULE_NAME"}

\* ------------------------------------------------------------------------
\* State
\* ------------------------------------------------------------------------
VARIABLES
    blob,       \* the bucket: team id -> payload, for the teams that have a blob
    committed,  \* per team: <<api_key, model>> of the save that wrote the
                \* present blob, <<>> when no save wrote it
    installs,   \* installation store: team -> users with an install record
    bots,       \* installation store: team -> whether the bot record exists
    context,    \* the BoltContext of the latest request, after the middleware
    sub,        \* the configure submission in flight (ack function and lazy);
                \* blob_at_verify and raced are history: whether the team
                \* had a blob when the save's probe returned, and whether
                \* that blob was gone when the upload was made
    rev,        \* the revocation event handler in flight
    locale_run  \* the latest run of the set_locale middleware

vars == <<blob, committed, installs, bots, context, sub, rev, locale_run>>

\* payloads the bucket can hold when the process starts: a legacy bare key,
\* a text that starts with "{" but is no JSON, a record with every field,
\* a record with the api_key alone
LegacyPayload == <<"sk-legacy">>
BrokenPayload == <<"{", "oops">>
FullPayload ==
    <<"{">> \o json_string(<<"api_key">>) \o <<":">> \o json_string(<<"sk-old">>)
    \o <<",">> \o json_string(<<"model">>) \o <<":">> \o json_string(<<"gpt-4">>)
    \o <<",">> \o json_string(<<"image_generation_model">>) \o <<":">>
    \o json_string(<<"dall-e-2">>)
    \o <<",">> \o json_string(<<"temperature">>) \o <<":", "0.2", "}">>
KeyOnlyPayload ==
    <<"{">> \o json_string(<<"api_key">>) \o <<":">> \o json_string(<<"sk-old">>)
    \o <<"}">>
InitialPayloads == {LegacyPayload, BrokenPayload, FullPayload, KeyOnlyPayload}

NoContext ==
    [team |-> "", download |-> "none", config_str |-> <<>>,
     credentials |-> CredentialsNone, static |-> {}, next |-> 0]

NoSubmission ==
    [team |-> "", api_key |-> <<>>, model |-> <<>>, already |-> None,
     apc |-> "idle", probes |-> "none", acked |-> "none",
     translate_keys |-> <<>>, text |-> "none",
     lpc |-> "idle", reverified |-> FALSE, lazy |-> "none", logged |-> FALSE,
     blob_at_verify |-> FALSE, raced |-> FALSE]

NoRevocation ==
    [kind |-> "", team |-> "", user_ids |-> <<>>, bot |-> FALSE,
     pc |-> "idle", i |-> 0, changed |-> FALSE, blob_result |-> "none",
     logged |-> FALSE, attempts |-> {}]

\* bot_scopes of the authorize result: unknown, or a set of scopes
BotScopes ==
    {[known |-> FALSE, scopes |-> {}],
     [known |-> TRUE, scopes |-> {"chat:write"}],
     [known |-> TRUE, scopes |-> {"chat:write", "users:read"}]}

\* locales users.info can report for a user (None: no locale in the reply)
Locales == {None, PyStr(<<"ja-JP">>), PyStr(<<"en-US">>)}

NoLocaleRun ==
    [ran |-> FALSE, bot_scopes |-> [known |-> FALSE, scopes |-> {}],
     user_id |-> "", users_info |-> "not_called", locale |-> None,
     next |-> 0, raised |-> FALSE]

Init ==
    /\ \E present \in SUBSET Teams : blob \in [present -> InitialPayloads]
    /\ committed = [t \in Teams |-> <<>>]
    /\ installs = [t \in Teams |-> Users]
    /\ bots = [t \in Teams |-> TRUE]
    /\ context = NoContext
    /\ sub = NoSubmission
    /\ rev = NoRevocation
    /\ locale_run = NoLocaleRun

\* ------------------------------------------------------------------------
\* Enrichment middleware, and the listener next_() reaches
\* ------------------------------------------------------------------------
RequestKinds == {"message", "view_submission", "tokens_revoked", "app_uninstalled"}

\* blob.download_as_text(): the text, or an exception (no blob, or I/O)
DownloadOutcomes(team) ==
    IF team \in DOMAIN blob THEN {"ok", "error"} ELSE {"not_found", "error"}

\* enriched_context with the except block treating a failed download as an
\* empty legacy payload
enriched_context_except_legacy(team, download) ==
    [team |-> team, download |-> download,
     config_str |-> IF download = "ok" THEN blob[team] ELSE <<>>,
     credentials |-> IF download = "ok" THEN credentials_of(blob[team])
                     ELSE credentials_of(<<>>),
     static |-> StaticSettings,
     next |-> 1]

\* enriched_context with the static settings written inside the try block,
\* so that the except block skips them
enriched_context_static_in_try(team, download) ==
    [team |-> team, download |-> download,
     config_str |-> IF download = "ok" THEN blob[team] ELSE <<>>,
     credentials |-> IF download = "ok" THEN credentials_of(blob[team])
                     ELSE CredentialsNone,
     static |-> IF download = "ok" THEN StaticSettings ELSE {},
     next |-> 1]

\* lines 107-139: the context the middleware leaves behind
enriched_context(team, download) ==
    [team |-> team, download |-> download,
     config_str |-> IF download = "ok" THEN blob[team] ELSE <<>>,
     credentials |-> IF download = "ok" THEN credentials_of(blob[team])
                     ELSE CredentialsNone,
     static |-> StaticSettings,
     next |-> 1]

\* app.view("configure")(ack=..., lazy=[...]): the ack function and the lazy
\* function are both started for the submission
new_submission(team, api_key, model, ctx) ==
    [team |-> team, api_key |-> api_key, model |-> model,
     already |-> ctx.credentials.OPENAI_API_KEY,
     apc |-> "start", probes |-> "none", acked |-> "none",
     translate_keys |-> <<>>, text |-> "none",
     lpc |-> "verify", reverified |-> FALSE, lazy |-> "none", logged |-> FALSE,
     blob_at_verify |-> FALSE, raced |-> FALSE]

\* after_users without the test of the bot list
after_users_always_bot(bot) == "delete_bot"

\* where handle_tokens_revoked_events goes once the user loop is over
after_users(bot) == IF bot THEN "delete_bot" ELSE "done"

new_tokens_revoked(team, user_ids, bot) ==
    [kind |-> "tokens_revoked", team |-> team, user_ids |-> user_ids,
     bot |-> bot,
     pc |-> IF Len(user_ids) > 0 THEN "delete_installation" ELSE after_users(bot),
     i |-> 1, changed |-> FALSE, blob_result |-> "none", logged |-> FALSE,
     attempts |-> {}]

new_app_uninstalled(team) ==
    [kind |-> "app_uninstalled", team |-> team, user_ids |-> <<>>,
     bot |-> FALSE, pc |-> "delete_all",
     i |-> 1, changed |-> FALSE, blob_result |-> "none", logged |-> FALSE,
     attempts |-> {}]

SubmissionFree == sub.apc \in {"idle", "done", "raised"} /\ sub.lpc \in {"idle", "done"}
RevocationFree == rev.pc \in {"idle", "done", "raised"}

set_gcs_openai_api_key(team, kind) ==
    \E download \in DownloadOutcomes(team) :
        LET ctx == enriched_context(team, download) IN
        /\ context' = ctx
        /\ \/ /\ kind = "message"
              /\ UNCHANGED <<sub, rev>>
           \/ /\ kind = "view_submission"
              /\ SubmissionFree
              /\ \E form \in Forms :
                     sub' = new_submission(team, form.api_key, form.model, ctx)
              /\ UNCHANGED rev
           \/ /\ kind = "tokens_revoked"
              /\ RevocationFree
              /\ \E user_ids \in UserIdLists, bot \in BOOLEAN :
                     rev' = new_tokens_revoked(team, user_ids, bot)
              /\ UNCHANGED sub
           \/ /\ kind = "app_uninstalled"
              /\ RevocationFree
              /\ rev' = new_app_uninstalled(team)
              /\ UNCHANGED sub
        /\ UNCHANGED <<blob, committed, installs, bots, locale_run>>

\* ------------------------------------------------------------------------
\* Configure submission: ack function
\* ------------------------------------------------------------------------
\* lines 204-213: the outer except block
ack_api_key_error(already, tr_key_ok) ==
    IF already # None /\ ~tr_key_ok
    THEN [acked |-> "none", apc |-> "raised"]
    ELSE [acked |-> "api_key", apc |-> "done"]

\* lines 185-213, given the outcomes of the two probes and of the translate
\* calls in the inner and in the outer except block
ack_outcome(already, baseline_ok, model_ok, tr_model_ok, tr_key_ok) ==
    IF baseline_ok
    THEN IF model_ok
         THEN [acked |-> "ok", apc |-> "done"]
         ELSE IF already # None /\ ~tr_model_ok
              THEN ack_api_key_error(already, tr_key_ok)
              ELSE [acked |-> "model", apc |-> "done"]
    ELSE ack_api_key_error(already, tr_key_ok)

\* translate_calls handing translate() the key of the submitted form
translate_calls_pending_key(already, api_key, baseline_ok, model_ok, tr_model_ok) ==
    LET call == IF already # None THEN <<PyStr(api_key)>> ELSE <<>> IN
    IF baseline_ok
    THEN IF model_ok THEN <<>>
         ELSE IF already # None /\ ~tr_model_ok THEN call \o call ELSE call
    ELSE call

\* lines 194-197 and 206-209: the openai_api_key arguments of the translate
\* calls the ack function makes, in order
translate_calls(already, api_key, baseline_ok, model_ok, tr_model_ok) ==
    LET call == IF already # None THEN <<already>> ELSE <<>> IN
    IF baseline_ok
    THEN IF model_ok THEN <<>>
         ELSE IF already # None /\ ~tr_model_ok THEN call \o call ELSE call
    ELSE call

\* lines 193-197 and 205-209: the text of the field error, as written in
\* the source or as translate() returned it
ack_text(already, acked) ==
    IF acked \notin {"api_key", "model"} THEN "none"
    ELSE IF already # None THEN "translated" ELSE "untranslated"

probes_seen(baseline_ok, model_ok) ==
    IF ~baseline_ok THEN "baseline_failed"
    ELSE IF ~model_ok THEN "model_failed" ELSE "both_ok"

\* validate_api_key_registration storing the record itself when it accepts
validate_api_key_registration_storing ==
    /\ sub.apc = "start"
    /\ \E baseline_ok \in BOOLEAN, model_ok \in BOOLEAN,
          tr_model_ok \in BOOLEAN, tr_key_ok \in BOOLEAN :
          LET out == ack_outcome(sub.already, baseline_ok, model_ok,
                                 tr_model_ok, tr_key_ok) IN
          /\ sub' = [sub EXCEPT !.apc = out.apc, !.acked = out.acked,
                                !.probes = probes_seen(baseline_ok, model_ok),
                                !.translate_keys =
                                    translate_calls(sub.already, sub.api_key,
                                        baseline_ok, model_ok, tr_model_ok),
                                !.text = ack_text(sub.already, out.acked)]
          /\ blob' = IF out.acked = "ok"
                     THEN [t \in DOMAIN blob \cup {sub.team} |->
                              IF t = sub.team
                              THEN json_dumps(sub.api_key, sub.model)
                              ELSE blob[t]]
                     ELSE blob
    /\ UNCHANGED <<committed, installs, bots, context, rev, locale_run>>

validate_api_key_registration ==
    /\ sub.apc = "start"
    /\ \E baseline_ok \in BOOLEAN, model_ok \in BOOLEAN,
          tr_model_ok \in BOOLEAN, tr_key_ok \in BOOLEAN :
          LET out == ack_outcome(sub.already, baseline_ok, model_ok,
                                 tr_model_ok, tr_key_ok) IN
          sub' = [sub EXCEPT !.apc = out.apc, !.acked = out.acked,
                             !.probes = probes_seen(baseline_ok, model_ok),
                             !.translate_keys =
                                 translate_calls(sub.already, sub.api_key,
                                     baseline_ok, model_ok, tr_model_ok),
                             !.text = ack_text(sub.already, out.acked)]
    /\ UNCHANGED <<blob, committed, installs, bots, context, rev, locale_run>>

\* ------------------------------------------------------------------------
\* Configure submission: lazy save
\* ------------------------------------------------------------------------
\* save_verify_outcome going on to the upload whatever the probe says
save_verify_outcome_unchecked(s, ok) ==
    [s EXCEPT !.lpc = "upload", !.reverified = ok]

\* lines 224-225 and 231-232: client.models.retrieve(model=model)
save_verify_outcome(s, ok) ==
    IF ok THEN [s EXCEPT !.lpc = "upload", !.reverified = TRUE]
    ELSE [s EXCEPT !.lpc = "done", !.lazy = "failed", !.logged = TRUE]

save_api_key_registration_verify ==
    /\ sub.lpc = "verify"
    /\ \E ok \in BOOLEAN :
          sub' = [save_verify_outcome(sub, ok) EXCEPT
                     !.blob_at_verify = sub.team \in DOMAIN blob]
    /\ UNCHANGED <<blob, committed, installs, bots, context, rev, locale_run>>

\* upload_from_string leaving an existing blob as it is
upload_from_string_create_only(store, team, text) ==
    IF team \in DOMAIN store THEN store
    ELSE [t \in DOMAIN store \cup {team} |-> IF t = team THEN text ELSE store[t]]

\* upload_from_string overwriting an existing blob only
upload_from_string_if_exists(store, team, text) ==
    [t \in DOMAIN store |-> IF t = team THEN text ELSE store[t]]

\* blob.upload_from_string(text) on the blob of a team
upload_from_string(store, team, text) ==
    [t \in DOMAIN store \cup {team} |-> IF t = team THEN text ELSE store[t]]

\* lines 226-232
save_api_key_registration_upload ==
    /\ sub.lpc = "upload"
    /\ \E ok \in BOOLEAN :
          IF ok
          THEN /\ blob' = upload_from_string(blob, sub.team,
                                             json_dumps(sub.api_key, sub.model))
               /\ committed' = [committed EXCEPT
                                   ![sub.team] = <<sub.api_key, sub.model>>]
               /\ sub' = [sub EXCEPT !.lpc = "done", !.lazy = "written",
                                     !.raced = sub.blob_at_verify
                                               /\ sub.team \notin DOMAIN blob]
          ELSE /\ sub' = [sub EXCEPT !.lpc = "done", !.lazy = "failed",
                                     !.logged = TRUE]
               /\ UNCHANGED <<blob, committed>>
    /\ UNCHANGED <<installs, bots, context, rev, locale_run>>

\* ------------------------------------------------------------------------
\* Revocation handlers
\* ------------------------------------------------------------------------
\* a delete of the installation store can only fail on a record it finds
DeleteOutcomes(found) == IF found THEN {TRUE, FALSE} ELSE {TRUE}

\* lines 60-65: one delete_installation of the user loop
handle_tokens_revoked_delete_installation ==
    /\ rev.pc = "delete_installation"
    /\ LET user_id == rev.user_ids[rev.i]
           found == user_id \in installs[rev.team] IN
       \E ok \in DeleteOutcomes(found) :
          IF ok
          THEN /\ installs' = [installs EXCEPT ![rev.team] = @ \ {user_id}]
               /\ rev' = [rev EXCEPT
                            !.i = @ + 1,
                            !.attempts = @ \cup {user_id},
                            !.changed = @ \/ found,
                            !.pc = IF rev.i < Len(rev.user_ids)
                                   THEN "delete_installation"
                                   ELSE after_users(rev.bot)]
          ELSE /\ rev' = [rev EXCEPT !.pc = "raised",
                                     !.attempts = @ \cup {user_id}]
               /\ UNCHANGED installs
    /\ UNCHANGED <<blob, committed, bots, context, sub, locale_run>>

\* lines 68-71
handle_tokens_revoked_delete_bot ==
    /\ rev.pc = "delete_bot"
    /\ \E ok \in DeleteOutcomes(bots[rev.team]) :
          IF ok
          THEN /\ bots' = [bots EXCEPT ![rev.team] = FALSE]
               /\ rev' = [rev EXCEPT !.pc = "blob_delete",
                                     !.attempts = @ \cup {"delete_bot"},
                                     !.changed = @ \/ bots[rev.team]]
          ELSE /\ rev' = [rev EXCEPT !.pc = "raised",
                                     !.attempts = @ \cup {"delete_bot"}]
               /\ UNCHANGED bots
    /\ UNCHANGED <<blob, committed, installs, context, sub, locale_run>>

\* lines 86-89: delete_all removes the bot record, then the install records
handle_app_uninstalled_delete_all ==
    /\ rev.pc = "delete_all"
    /\ LET found == bots[rev.team] \/ installs[rev.team] # {} IN
       \E ok \in DeleteOutcomes(found) :
          IF ok
          THEN /\ bots' = [bots EXCEPT ![rev.team] = FALSE]
               /\ installs' = [installs EXCEPT ![rev.team] = {}]
               /\ rev' = [rev EXCEPT !.pc = "blob_delete",
                                     !.attempts = @ \cup {"delete_all"},
                                     !.changed = @ \/ found]
          ELSE /\ rev' = [rev EXCEPT !.pc = "raised",
                                     !.attempts = @ \cup {"delete_all"}]
               /\ UNCHANGED <<bots, installs>>
    /\ UNCHANGED <<blob, committed, context, sub, locale_run>>

\* blob.delete(): NotFound when the team has no blob, else deleted or an
\* I/O error
BlobDeleteOutcomes(team) ==
    IF team \in DOMAIN blob THEN {"deleted", "io_error"} ELSE {"not_found"}

\* blob_delete that removes nothing
blob_delete_nothing(store, team) == store

\* the bucket after blob.delete() on the blob of a team
blob_delete(store, team) == [t \in DOMAIN store \ {team} |-> store[t]]

\* after_blob_delete with NotFound escaping the handler
after_blob_delete_not_found_raises(r, result) ==
    IF result = "not_found"
    THEN [r EXCEPT !.pc = "raised", !.blob_result = result,
                   !.attempts = @ \cup {"blob.delete"}]
    ELSE [r EXCEPT !.pc = "done", !.blob_result = result,
                   !.attempts = @ \cup {"blob.delete"},
                   !.changed = @ \/ result = "deleted",
                   !.logged = result # "deleted"]

\* lines 72-79 and 90-97: the try/except around blob.delete()
after_blob_delete(r, result) ==
    [r EXCEPT !.pc = "done", !.blob_result = result,
              !.attempts = @ \cup {"blob.delete"},
              !.changed = @ \/ result = "deleted",
              !.logged = result # "deleted"]

handle_revocation_blob_delete ==
    /\ rev.pc = "blob_delete"
    /\ \E result \in BlobDeleteOutcomes(rev.team) :
          /\ rev' = after_blob_delete(rev, result)
          /\ IF result = "deleted"
             THEN /\ blob' = blob_delete(blob, rev.team)
                  /\ committed' = [committed EXCEPT ![rev.team] = <<>>]
             ELSE UNCHANGED <<blob, committed>>
    /\ UNCHANGED <<installs, bots, context, sub, locale_run>>

\* ------------------------------------------------------------------------
\* Specification
\* ------------------------------------------------------------------------
Next ==
    \/ \E team \in Teams, kind \in RequestKinds : set_gcs_openai_api_key(team, kind)
    \/ validate_api_key_registration
    \/ save_api_key_registration_verify
    \/ save_api_key_registration_upload
    \/ handle_tokens_revoked_delete_installation
    \/ handle_tokens_revoked_delete_bot
    \/ handle_app_uninstalled_delete_all
    \/ handle_revocation_blob_delete

Spec == Init /\ [][Next]_vars

\* ------------------------------------------------------------------------
\* The set_locale middleware (USE_SLACK_LANGUAGE is True)
\* ------------------------------------------------------------------------
\* outcomes of client.users_info
UsersInfoOutcomes == {"ok", "SlackApiError", "other_error"}

\* lines 280-289, given the bot scopes, the user looked up, the outcome of
\* users_info and the locale it reports
set_locale_outcome(bot_scopes, user_id, users_info, locale) ==
    IF bot_scopes.known /\ "users:read" \in bot_scopes.scopes
    THEN [ran |-> TRUE, bot_scopes |-> bot_scopes, user_id |-> user_id,
          users_info |-> users_info,
          locale |-> IF users_info = "ok" THEN locale ELSE None,
          next |-> IF users_info = "other_error" THEN 0 ELSE 1,
          raised |-> users_info = "other_error"]
    ELSE [ran |-> TRUE, bot_scopes |-> bot_scopes, user_id |-> "",
          users_info |-> "not_called", locale |-> None,
          next |-> 0, raised |-> FALSE]

\* a request of a team: set_gcs_openai_api_key runs, and its next_() runs
\* set_locale, the middleware registered after it (lines 269-289)
set_locale(team) ==
    /\ \E download \in DownloadOutcomes(team) :
           context' = enriched_context(team, download)
    /\ \E bot_scopes \in BotScopes, user_id \in Users,
          users_info \in UsersInfoOutcomes, locale \in Locales :
           locale_run' = set_locale_outcome(bot_scopes, user_id,
                                            users_info, locale)
    /\ UNCHANGED <<blob, committed, installs, bots, sub, rev>>

NextLocale == \E team \in Teams : set_locale(team)

SpecLocale == Init /\ [][NextLocale]_vars

\* the same program started on an empty bucket
InitEmpty ==
    /\ blob = [t \in {} |-> <<>>]
    /\ committed = [t \in Teams |-> <<>>]
    /\ installs = [t \in Teams |-> Users]
    /\ bots = [t \in Teams |-> TRUE]
    /\ context = NoContext
    /\ sub = NoSubmission
    /\ rev = NoRevocation
    /\ locale_run = NoLocaleRun

SpecEmpty == InitEmpty /\ [][Next]_vars

\* ------------------------------------------------------------------------
\* Steps of the handlers, as seen in a transition
\* ------------------------------------------------------------------------
AckStep == sub.apc = "start" /\ sub'.apc # "start"
SaveStep == sub.lpc \in {"verify", "upload"} /\ sub'.lpc # sub.lpc
RevStep == rev.pc \notin {"idle", "done", "raised"} /\ rev' # rev

BotRevocation ==
    \/ rev.kind = "app_uninstalled"
    \/ rev.kind = "tokens_revoked" /\ rev.bot

LegacyCredentials(s) ==
    [OPENAI_API_KEY |-> PyStr(s), OPENAI_MODEL |-> OPENAI_MODEL,
     OPENAI_IMAGE_GENERATION_MODEL |-> OPENAI_IMAGE_GENERATION_MODEL,
     OPENAI_TEMPERATURE |-> OPENAI_TEMPERATURE]

\* ------------------------------------------------------------------------
\* Properties
\* ------------------------------------------------------------------------

\* C1: once the ack function has ended, the acknowledgment is decided by the
\* two probes alone: baseline failed => error on api_key; baseline ok and
\* model failed => error on model; both ok => plain acknowledgment.
C1_AckClassifiedByProbes ==
    sub.probes # "none" =>
        /\ sub.probes = "baseline_failed" => sub.acked = "api_key"
        /\ sub.probes = "model_failed" => sub.acked = "model"
        /\ sub.probes = "both_ok" => sub.acked = "ok"

\* C2: a submission whose acknowledgment carried a field error never has
\* its record written by the lazy save.
C2_RejectedNeverWritten ==
    sub.acked \in {"api_key", "model"} => sub.lazy # "written"

\* C3: the lazy save changes the blob only after its own probe succeeded;
\* when the probe or the upload fails the bucket is left as it was, the
\* failure is logged, and the function returns (no exception leaves it).
C3_SaveWritesOnlyAfterReverification ==
    [][SaveStep =>
        /\ blob' # blob => (sub.reverified /\ sub'.lazy = "written")
        /\ sub'.lazy = "failed" =>
               (blob' = blob /\ sub'.logged /\ sub'.lpc = "done")
        /\ sub'.lpc \in {"upload", "done"}]_vars

C3_Witness ==
    /\ sub.acked = "ok"
    /\ sub.lazy = "failed"
    /\ ~sub.reverified
    /\ sub.logged
    /\ sub.team \in DOMAIN blob /\ blob[sub.team] = FullPayload

\* C4: no step of the ack function changes the bucket, whatever its outcome
\* (plain acknowledgment, error on api_key, error on model, exception).
C4_AckLeavesBucketUnchanged ==
    [][AckStep => blob' = blob]_vars

C4_Witness ==
    /\ sub.apc = "done" /\ sub.acked = "ok"
    /\ sub.lpc = "verify"
    /\ sub.team \notin DOMAIN blob

\* C5: every step of a tokens_revoked handler whose bot list is empty
\* removes the install record of the listed user it is at and nothing else:
\* the blob and the bot record are unchanged; when the handler returns it
\* has made one delete_installation call per listed user and none of them
\* has an install record.
C5_UserRevocationFrame ==
    /\ [][(RevStep /\ rev.kind = "tokens_revoked" /\ ~rev.bot) =>
            /\ blob' = blob
            /\ bots' = bots
            /\ \/ installs' = installs
               \/ /\ rev.pc = "delete_installation"
                  /\ installs' = [installs EXCEPT ![rev.team] =
                                      @ \ {rev.user_ids[rev.i]}]]_vars
    /\ []((rev.kind = "tokens_revoked" /\ ~rev.bot /\ rev.pc = "done") =>
            /\ rev.i = Len(rev.user_ids) + 1
            /\ \A n \in 1..Len(rev.user_ids) :
                   rev.user_ids[n] \notin installs[rev.team])

C5_Witness ==
    /\ rev.kind = "tokens_revoked" /\ ~rev.bot /\ rev.pc = "done"
    /\ rev.user_ids = <<"U1">>
    /\ installs[rev.team] = Users \ {"U1"}
    /\ bots[rev.team]
    /\ rev.team \in DOMAIN blob

AlreadyDeleted(team) ==
    installs[team] = {} /\ ~bots[team] /\ team \notin DOMAIN blob

C7_RevocationIdempotent ==
    [][(RevStep /\ AlreadyDeleted(rev.team)) =>
        /\ blob' = blob /\ installs' = installs /\ bots' = bots
        /\ rev'.pc # "raised"]_vars

C7_Witness ==
    /\ rev.pc = "done" /\ BotRevocation
    /\ ~rev.changed
    /\ rev.blob_result = "not_found"
    /\ AlreadyDeleted(rev.team)

\* C8: while the blob of a team is the one a save wrote for (api_key,
\* model), a load of that team yields that api_key and model, and the
\* process defaults for the image model and the temperature.
C8_RoundTrip ==
    \A team \in Teams :
        committed[team] # <<>> =>
            /\ team \in DOMAIN blob
            /\ enriched_context(team, "ok").credentials =
                   [OPENAI_API_KEY |-> PyStr(committed[team][1]),
                    OPENAI_MODEL |-> PyStr(committed[team][2]),
                    OPENAI_IMAGE_GENERATION_MODEL |->
                        OPENAI_IMAGE_GENERATION_MODEL,
                    OPENAI_TEMPERATURE |-> OPENAI_TEMPERATURE]

C8_Witness ==
    /\ context.team \in DOMAIN blob
    /\ committed[context.team] = <<<<"sk", QT, "b">>, <<"gpt-4o">>>>
    /\ context.download = "ok"
    /\ context.config_str = blob[context.team]
    /\ context.credentials.OPENAI_API_KEY = PyStr(<<"sk", QT, "b">>)

\* C9 (as stated): every downloaded payload that is not a valid structured
\* record, a payload whose decoding fails included, is taken whole as the
\* api key, with the other three fields at the process defaults.
C9_UndecodableIsLegacy ==
    (/\ context.download = "ok"
     /\ ~(startswith_brace(context.config_str)
          /\ json_loads(context.config_str).ok))
    => context.credentials = LegacyCredentials(context.config_str)

\* C9 (amended): a downloaded payload that does not start with "{" is taken
\* whole as the api key, with the other three fields at the process
\* defaults; a payload that starts with "{" and fails to decode gives the
\* four fields None.
C9_NonBraceIsLegacy ==
    context.download = "ok" =>
        /\ ~startswith_brace(context.config_str) =>
               context.credentials = LegacyCredentials(context.config_str)
        /\ (startswith_brace(context.config_str)
               /\ ~json_loads(context.config_str).ok) =>
               context.credentials = CredentialsNone

C9_Witness ==
    /\ context.download = "ok"
    /\ context.config_str = LegacyPayload
    /\ context.credentials.OPENAI_API_KEY = PyStr(LegacyPayload)

\* C10: when the team has no blob, or the download or the decoding fails,
\* the middleware leaves the four credential fields None and goes on to
\* next_() (nothing is raised).
C10_FailOpenRead ==
    (\/ context.download \in {"not_found", "error"}
     \/ /\ context.download = "ok"
        /\ startswith_brace(context.config_str)
        /\ ~json_loads(context.config_str).ok)
    => (context.credentials = CredentialsNone /\ context.next = 1)

C10_Witness ==
    /\ context.download = "error"
    /\ context.team \in DOMAIN blob
    /\ context.credentials = CredentialsNone
    /\ context.next = 1

\* C11: after the middleware has run for a request, whatever the tenant's
\* state (record, legacy key, no blob, unreadable store), the context holds
\* the six static connection settings and next_() was called exactly once.
C11_StaticSettingsAndNext ==
    context.download # "none" =>
        /\ context.static = StaticSettings
        /\ context.next = 1

C11_Witness ==
    /\ context.download = "ok"
    /\ context.config_str = BrokenPayload
    /\ context.static = StaticSettings
    /\ context.next = 1

\* C12: when a structured record was loaded, each of model, image model and
\* temperature that the record leaves unset is in the context with its
\* process default.
C12_UnsetFieldsGetDefaults ==
    (/\ context.download = "ok"
     /\ startswith_brace(context.config_str)
     /\ json_loads(context.config_str).ok)
    => LET config == json_loads(context.config_str).dict IN
       /\ <<"model">> \notin DOMAIN config =>
              context.credentials.OPENAI_MODEL = OPENAI_MODEL
       /\ <<"image_generation_model">> \notin DOMAIN config =>
              context.credentials.OPENAI_IMAGE_GENERATION_MODEL
                  = OPENAI_IMAGE_GENERATION_MODEL
       /\ <<"temperature">> \notin DOMAIN config =>
              context.credentials.OPENAI_TEMPERATURE = OPENAI_TEMPERATURE

RevocationEnded == rev.pc \in {"done", "raised"}

\* C13: no revocation handler ends with an exception: a deletion that fails
\* is caught (and logged) inside the handler.
C13_DeletionFailureNeverPropagates ==
    rev.pc # "raised"

\* C14: when a revocation handler has ended, every deletion its event calls
\* for has been attempted: each listed user's delete_installation; for a bot
\* revocation delete_bot and the blob delete; for an uninstall delete_all
\* and the blob delete.
C14_EveryDeletionAttempted ==
    RevocationEnded =>
        /\ \A n \in 1..Len(rev.user_ids) : rev.user_ids[n] \in rev.attempts
        /\ rev.kind = "tokens_revoked" /\ rev.bot =>
               {"delete_bot", "blob.delete"} \subseteq rev.attempts
        /\ rev.kind = "app_uninstalled" =>
               {"delete_all", "blob.delete"} \subseteq rev.attempts

AckEnded == sub.apc \in {"done", "raised"}

\* C15: every translate call of the ack function gets the key the request
\* context held (the tenant's active key), not the key of the form; when
\* the context held no key, translate is not called and the field error
\* carries the untranslated text.
C15_TranslateUsesActiveKey ==
    AckEnded =>
        /\ \A n \in 1..Len(sub.translate_keys) :
               sub.translate_keys[n] = sub.already
        /\ sub.already = None =>
               /\ sub.translate_keys = <<>>
               /\ sub.acked \in {"api_key", "model"} =>
                      sub.text = "untranslated"

C15_Witness ==
    /\ AckEnded
    /\ sub.acked = "model"
    /\ sub.api_key = <<"sk-a">>
    /\ sub.already = PyStr(<<"sk-old">>)
    /\ sub.translate_keys = <<PyStr(<<"sk-old">>)>>

\* C16: when the ack function has ended, the submission has been
\* acknowledged (once): plainly, or with a field error.
C16_AckedWhenEnded ==
    AckEnded => sub.acked \in {"ok", "api_key", "model"}

\* C17: a save that passed its probe while the team had a blob, and whose
\* upload is made after a revocation handler deleted that blob, creates the
\* blob again: after the write a load yields the submitted key.
C17_WriteAfterRevocationLands ==
    [][(sub.lpc = "upload" /\ sub'.lazy = "written" /\ sub'.raced) =>
        /\ sub.team \notin DOMAIN blob
        /\ sub.team \in DOMAIN blob'
        /\ credentials_of(blob'[sub.team]).OPENAI_API_KEY
               = PyStr(sub.api_key)]_vars

C17_Witness ==
    /\ sub.lazy = "written" /\ sub.raced
    /\ rev.pc = "done" /\ BotRevocation /\ rev.blob_result = "deleted"
    /\ rev.team = sub.team
    /\ sub.team \in DOMAIN blob
    /\ committed[sub.team] = <<sub.api_key, sub.model>>
    /\ enriched_context(sub.team, "ok").credentials.OPENAI_API_KEY
           = PyStr(sub.api_key)

\* C18: started on an empty bucket, every blob the bucket holds is a
\* structured record (it starts with "{" and decodes) with a non-empty
\* string api_key and a model; no blob is a bare legacy key.
C18_StoredRecordsAreStructured ==
    \A team \in DOMAIN blob :
        /\ startswith_brace(blob[team])
        /\ json_loads(blob[team]).ok
        /\ LET config == json_loads(blob[team]).dict IN
           /\ <<"api_key">> \in DOMAIN config
           /\ config[<<"api_key">>].ty = "str"
           /\ config[<<"api_key">>].v # <<>>
           /\ <<"model">> \in DOMAIN config
           /\ config[<<"model">>].ty = "str"

C18_Witness ==
    /\ sub.lazy = "written"
    /\ rev.pc = "done" /\ rev.blob_result = "not_found"
    /\ sub.team \in DOMAIN blob
    /\ blob[sub.team] = json_dumps(sub.api_key, sub.model)

\* C19: a save that writes leaves the team's blob equal to the encoding of
\* {api_key, model} alone, whatever the blob held before: a load of it
\* yields the submitted key and model and the process defaults for the
\* image model and the temperature.
C19_SaveReplacesWholeRecord ==
    [][(SaveStep /\ sub'.lazy = "written") =>
        /\ sub.team \in DOMAIN blob'
        /\ blob'[sub.team] = json_dumps(sub.api_key, sub.model)
        /\ credentials_of(blob'[sub.team]) =
               [OPENAI_API_KEY |-> PyStr(sub.api_key),
                OPENAI_MODEL |-> PyStr(sub.model),
                OPENAI_IMAGE_GENERATION_MODEL |-> OPENAI_IMAGE_GENERATION_MODEL,
                OPENAI_TEMPERATURE |-> OPENAI_TEMPERATURE]]_vars

C19_Witness ==
    /\ sub.lazy = "written"
    /\ rev.pc = "idle"
    /\ context.team = sub.team
    /\ context.download = "ok"
    /\ context.config_str = FullPayload
    /\ context.credentials.OPENAI_TEMPERATURE = PyNum(<<"0.2">>)
    /\ sub.team \in DOMAIN blob
    /\ credentials_of(blob[sub.team]).OPENAI_TEMPERATURE = OPENAI_TEMPERATURE
    /\ credentials_of(blob[sub.team]).OPENAI_IMAGE_GENERATION_MODEL
           = OPENAI_IMAGE_GENERATION_MODEL

\* C20: every run of set_locale calls next_() exactly once, with or
\* without users:read among the bot scopes, whether users_info succeeds or
\* fails.
C20_SetLocaleCallsNext ==
    locale_run.ran => locale_run.next = 1

====
